---- MODULE Spec2Model ----
(***************************************************************************)
(* A model of cocklock: a lock manager (CockLock, src/src/lock.rs) that    *)
(* keeps named, leased locks as rows of a table on each of an ordered list *)
(* of Postgres/Cockroach clients (SQL in src/src/queries.rs).              *)
(*                                                                         *)
(* A step of the model is one call of lock or unlock, a backend's clock    *)
(* advancing, or a connection closing.  A call is one step because it has  *)
(* one effect outside the manager: the statement executed by the first     *)
(* client that does not fail transiently.  The iterations of its loop      *)
(* before that one change no table.  Managers are separate processes:      *)
(* their calls interleave in any order.                                    *)
(*                                                                         *)
(* The specification Spec starts after construction, with one table name;  *)
(* the rows of that table are `tables`.  The specification Lifecycle       *)
(* starts before any construction and follows CockLock::new, clean_up and  *)
(* lock over the schema objects of each backend, for two table names.      *)
(***************************************************************************)
EXTENDS Integers, FiniteSets, Sequences, TLC

(* ------------------------------ bounds --------------------------------- *)

\* The backends' clock now() runs over 0..MaxTime.
MaxTime == 2

\* timeout_ms arguments are drawn from 0..MaxTtl.
MaxTtl == 1

\* Lifecycle: at most MaxClosed connections close.
MaxClosed == 1

\* The CockLock instances; the string stands for the instance's uuid `id`.
Managers == {"alice", "bob"}

\* The lock names callers pass.
LockNames == {"n1"}

\* The `clients` list every manager is built with: the backends, in the
\* priority order of the loops of lock and unlock.
clients == <<"pg1", "pg2">>

\* The backends.
Clients == {clients[i] : i \in 1..Len(clients)}

\* The table names managers are built with: DEFAULT_TABLE and another.
TableNames == {"_locks", "t2"}

(* --------------------------- the lock table ---------------------------- *)

\* SQL NULL in the nullable column expires_at (timestamps are >= 0).
NULL == -1

\* A row of TABLE_NAME.
Row == [client_id : Managers, lock_name : LockNames,
        expires_at : {NULL} \cup (0..(MaxTime + MaxTtl))]

VARIABLES
    tables,   \* tables[c]: the rows of TABLE_NAME on backend c
    closed,   \* closed[m][c]: manager m's connection to backend c is closed
    now,      \* the backends' clock, now()
    grant,    \* history: the latest lock call that returned Ok(()): who was
              \* granted which name, when, with which timeout_ms, by which
              \* client; NoGrant once that manager's unlock of the name has
              \* returned Ok(())
    last,     \* history: the call made by the latest step, if that step was
              \* a call: who called what, the clients tried in order, the
              \* client whose answer ended the loop with its table before
              \* the call, the grant before the call, the error (of a fatal
              \* answer) or the row count, and what the call returned
    schema,   \* Lifecycle: schema[c], the schema objects of backend c: the
              \* tables that exist, their rows, the tables that have the
              \* trigger _lock_reap_trigger, and the table the one function
              \* _lock_reap() deletes from ("none": no such function)
    built,    \* Lifecycle: built[m], the table_name of the instance that
              \* CockLock::new returned for manager m ("none": not built)
    done      \* Lifecycle, history: the call made by the latest step, if
              \* that step was a call of new, clean_up or lock: who called
              \* what with which table name, the clients on which that
              \* table existed before the call, the clients tried, the
              \* error that ended it, and what it returned

vars == <<tables, closed, now, grant, last, schema, built, done>>

\* The variables the specification Spec leaves as they are.
lifecycle_vars == <<schema, built>>

(* ------------------------------ queries -------------------------------- *)

\* A reaper that deletes nothing (the trigger missing or not deleting).
lock_reap_disabled(rows, t) == rows

\* _lock_reap(): delete from TABLE_NAME where expires_at is not null and
\* now() > expires_at.  `t` is now().
lock_reap(rows, t) ==
    {r \in rows : ~(r.expires_at # NULL /\ t > r.expires_at)}

\* The lock statement with the conflict taken on (client_id, lock_name)
\* instead of the unique lock_name: another client's row is no conflict.
PG_LOCK_QUERY_conflict_per_client(rows, id, name, ms, t) ==
    LET reaped   == {r \in rows : ~(r.expires_at # NULL /\ t > r.expires_at)}
        excluded == [client_id |-> id, lock_name |-> name, expires_at |-> t + ms]
        conflict == {r \in reaped : /\ r.lock_name = excluded.lock_name
                                     /\ r.client_id = excluded.client_id}
    IN  [rows |-> (reaped \ conflict) \cup {excluded}, row_count |-> 1]

\* The lock statement without `TABLE_NAME.client_id = excluded.client_id` in
\* the where clause of the update: any client extends the row.
PG_LOCK_QUERY_unchecked_owner(rows, id, name, ms, t) ==
    LET reaped   == {r \in rows : ~(r.expires_at # NULL /\ t > r.expires_at)}
        excluded == [client_id |-> id, lock_name |-> name, expires_at |-> t + ms]
        conflict == {r \in reaped : r.lock_name = excluded.lock_name}
    IN  IF conflict = {}
        THEN [rows |-> reaped \cup {excluded}, row_count |-> 1]
        ELSE [rows |-> (reaped \ conflict) \cup
                       {[r EXCEPT !.expires_at = t + ms] : r \in conflict},
              row_count |-> Cardinality(conflict)]

\* The lock statement with the update adding the timeout to the row's
\* expires_at instead of to now().
PG_LOCK_QUERY_additive(rows, id, name, ms, t) ==
    LET reaped   == {r \in rows : ~(r.expires_at # NULL /\ t > r.expires_at)}
        excluded == [client_id |-> id, lock_name |-> name, expires_at |-> t + ms]
        conflict == {r \in reaped : r.lock_name = excluded.lock_name}
        updated  == {r \in conflict : r.client_id = excluded.client_id}
    IN  IF conflict = {}
        THEN [rows |-> reaped \cup {excluded}, row_count |-> 1]
        ELSE [rows |-> (reaped \ updated) \cup
                       {[r EXCEPT !.expires_at = r.expires_at + ms] : r \in updated},
              row_count |-> Cardinality(updated)]

\* PG_LOCK_QUERY with $1 = id, $2 = name, $3 = ms, run at now() = t on a table
\* holding `rows`.  The statement-level trigger _lock_reap_trigger (before
\* insert or update) runs the reaper first; then the insert, or on a conflict
\* on the unique column lock_name the update of expires_at, restricted by the
\* where clause to the row of the same client_id.  Gives the table afterwards
\* and the number of rows the statement affected.
PG_LOCK_QUERY(rows, id, name, ms, t) ==
    LET reaped   == lock_reap(rows, t)
        excluded == [client_id |-> id, lock_name |-> name, expires_at |-> t + ms]
        conflict == {r \in reaped : r.lock_name = excluded.lock_name}
        updated  == {r \in conflict : /\ r.client_id = excluded.client_id
                                      /\ r.lock_name = excluded.lock_name}
    IN  IF conflict = {}
        THEN [rows |-> reaped \cup {excluded}, row_count |-> 1]
        ELSE [rows |-> (reaped \ updated) \cup
                       {[r EXCEPT !.expires_at = t + ms] : r \in updated},
              row_count |-> Cardinality(updated)]

\* The unlock statement without `client_id = $1`: it deletes any client's row.
PG_UNLOCK_QUERY_any_owner(rows, id, name) ==
    LET deleted == {r \in rows : r.lock_name = name}
    IN  [rows |-> rows \ deleted, row_count |-> Cardinality(deleted)]

\* PG_UNLOCK_QUERY with $1 = id, $2 = name: delete the rows of that client_id
\* and lock_name.  A delete does not fire the reaper trigger.
PG_UNLOCK_QUERY(rows, id, name) ==
    LET deleted == {r \in rows : r.client_id = id /\ r.lock_name = name}
    IN  [rows |-> rows \ deleted, row_count |-> Cardinality(deleted)]

(* ------------------------ client.execute results ----------------------- *)

\* The errors client.execute can return: the connection is closed
\* (err.is_closed()), SqlState ADMIN_SHUTDOWN, SqlState CRASH_SHUTDOWN, or any
\* other postgres error.  "none" stands for Ok(row_count).
Errors == {"closed", "ADMIN_SHUTDOWN", "CRASH_SHUTDOWN", "other"}

\* The condition with the connection-closed test only: the two shutdown codes
\* are taken for fatal errors.
IsTransient_closed_only(err) == err = "closed"

\* The condition under which lock and unlock `continue` with the next client.
IsTransient(err) == err \in {"closed", "ADMIN_SHUTDOWN", "CRASH_SHUTDOWN"}

\* lock's match without the row_count == 0 arm.
lock_match_ignores_count(err, row_count) ==
    IF err # "none"
    THEN IF err \in {"closed", "ADMIN_SHUTDOWN", "CRASH_SHUTDOWN"}
         THEN "continue" ELSE "PostgresError"
    ELSE "Ok"

\* lock's match with every other error reported as NotAvailable.
lock_match_error_as_conflict(err, row_count) ==
    IF err # "none"
    THEN IF err \in {"closed", "ADMIN_SHUTDOWN", "CRASH_SHUTDOWN"}
         THEN "continue" ELSE "NotAvailable"
    ELSE IF row_count = 0 THEN "NotAvailable" ELSE "Ok"

\* `match result` of lock: "continue", or the value lock returns.
lock_match(err, row_count) ==
    IF err # "none"
    THEN IF IsTransient(err) THEN "continue" ELSE "PostgresError"
    ELSE IF row_count = 0 THEN "NotAvailable" ELSE "Ok"

\* unlock's match without the row_count == 0 arm.
unlock_match_ignores_count(err, row_count) ==
    IF err # "none"
    THEN IF IsTransient(err) THEN "continue" ELSE "PostgresError"
    ELSE "Ok"

\* `match result` of unlock: "continue", or the value unlock returns.
unlock_match(err, row_count) ==
    IF err # "none"
    THEN IF IsTransient(err) THEN "continue" ELSE "PostgresError"
    ELSE IF row_count = 0 THEN "NotAvailable" ELSE "Ok"

\* The answers the clients can give manager m in one call: every closed
\* connection answers with the transient error e.t, every open one with e.f,
\* Ok(row_count) ("none") or another error.
Answers(m) ==
    [t : IF \E c \in Clients : closed[m][c]
         THEN {"closed", "ADMIN_SHUTDOWN", "CRASH_SHUTDOWN"} ELSE {"closed"},
     f : IF \E c \in Clients : ~closed[m][c]
         THEN {"none", "other"} ELSE {"none"}]

\* What client.execute gives manager m on client c under the answers e: an
\* error, or "none" for Ok(row_count).
execute(m, c, e) == IF closed[m][c] THEN e.t ELSE e.f

\* A loop that tries a client a second time after a transient error before
\* it moves on to the next one; lock and unlock do not.
RECURSIVE Loop_retries_once(_, _, _, _)
Loop_retries_once(i, m, e, tried) ==
    IF i > Len(clients)
    THEN [tried |-> tried, answered |-> FALSE]
    ELSE IF IsTransient(execute(m, clients[i], e))
         THEN Loop_retries_once(i + 1, m, e,
                                Append(Append(tried, clients[i]), clients[i]))
         ELSE [tried |-> Append(tried, clients[i]), answered |-> TRUE]

\* The `for client in self.clients.iter_mut()` loop of lock and unlock from
\* the i-th client on: it continues past the clients that answer with a
\* transient error and ends at the first other answer, or after the last
\* client.  Gives the clients tried and whether one of them ended the loop.
RECURSIVE Loop(_, _, _, _)
Loop(i, m, e, tried) ==
    IF i > Len(clients)
    THEN [tried |-> tried, answered |-> FALSE]
    ELSE IF IsTransient(execute(m, clients[i], e))
         THEN Loop(i + 1, m, e, Append(tried, clients[i]))
         ELSE [tried |-> Append(tried, clients[i]), answered |-> TRUE]

(* ------------------------------- state --------------------------------- *)

NoGrant ==
    [m |-> "", lock_name |-> "", at |-> NULL, timeout_ms |-> 0, c |-> ""]

\* A backend on which nothing has been created.
Uninstalled ==
    [exists |-> {}, rows |-> [T \in TableNames |-> {}], triggers |-> {},
     reaps |-> "none"]

NoLifecycleCall ==
    [m |-> "", op |-> "none", table_name |-> "", existed |-> {},
     tried |-> <<>>, err |-> "none", ret |-> "none"]

NoCall ==
    [m |-> "", op |-> "none", lock_name |-> "", timeout_ms |-> 0,
     tried |-> <<>>, c |-> "", err |-> "none", row_count |-> 0,
     ret |-> "none", before |-> {}, grant |-> NoGrant]

Init ==
    /\ tables = [c \in Clients |-> {}]
    /\ closed = [m \in Managers |-> [c \in Clients |-> FALSE]]
    /\ now = 0
    /\ grant = NoGrant
    /\ last = NoCall
    /\ schema = [c \in Clients |-> Uninstalled]
    /\ built = [m \in Managers |-> "none"]
    /\ done = NoLifecycleCall

(* ------------------------------ actions -------------------------------- *)

\* CockLock::lock(n, ms) called on manager m.
lock(m, n, ms) ==
    \E e \in Answers(m) :
        LET run == Loop(1, m, e, <<>>)
            c   == run.tried[Len(run.tried)]
            err == execute(m, c, e)
            q   == PG_LOCK_QUERY(tables[c], m, n, ms, now)
            row_count == IF err = "none" THEN q.row_count ELSE 0
            ret == IF run.answered THEN lock_match(err, row_count)
                                   ELSE "NoClientsAvailable"
        IN  /\ tables' = IF run.answered /\ err = "none"
                         THEN [tables EXCEPT ![c] = q.rows] ELSE tables
            /\ grant' = IF ret = "Ok"
                        THEN [m |-> m, lock_name |-> n, at |-> now,
                              timeout_ms |-> ms, c |-> c]
                        ELSE grant
            /\ last' = IF run.answered
                       THEN [m |-> m, op |-> "lock", lock_name |-> n,
                             timeout_ms |-> ms, tried |-> run.tried, c |-> c,
                             err |-> err, row_count |-> row_count, ret |-> ret,
                             before |-> tables[c], grant |-> grant]
                       ELSE [m |-> m, op |-> "lock", lock_name |-> n,
                             timeout_ms |-> ms, tried |-> run.tried, c |-> "",
                             err |-> "none", row_count |-> 0, ret |-> ret,
                             before |-> {}, grant |-> grant]
            /\ UNCHANGED <<closed, now>>
            /\ done' = NoLifecycleCall
            /\ UNCHANGED lifecycle_vars

\* CockLock::unlock(n) called on manager m.
unlock(m, n) ==
    \E e \in Answers(m) :
        LET run == Loop(1, m, e, <<>>)
            c   == run.tried[Len(run.tried)]
            err == execute(m, c, e)
            q   == PG_UNLOCK_QUERY(tables[c], m, n)
            row_count == IF err = "none" THEN q.row_count ELSE 0
            ret == IF run.answered THEN unlock_match(err, row_count)
                                   ELSE "NoClientsAvailable"
        IN  /\ tables' = IF run.answered /\ err = "none"
                         THEN [tables EXCEPT ![c] = q.rows] ELSE tables
            /\ grant' = IF ret = "Ok" /\ grant.m = m /\ grant.lock_name = n
                        THEN NoGrant
                        ELSE grant
            /\ last' = IF run.answered
                       THEN [m |-> m, op |-> "unlock", lock_name |-> n,
                             timeout_ms |-> 0, tried |-> run.tried, c |-> c,
                             err |-> err, row_count |-> row_count, ret |-> ret,
                             before |-> tables[c], grant |-> grant]
                       ELSE [m |-> m, op |-> "unlock", lock_name |-> n,
                             timeout_ms |-> 0, tried |-> run.tried, c |-> "",
                             err |-> "none", row_count |-> 0, ret |-> ret,
                             before |-> {}, grant |-> grant]
            /\ UNCHANGED <<closed, now>>
            /\ done' = NoLifecycleCall
            /\ UNCHANGED lifecycle_vars

\* Manager m's connection to backend c closes: the server is shut down or
\* crashes, or the connection drops.  The Client does not reconnect.
Close(m, c) ==
    /\ ~closed[m][c]
    /\ closed' = [closed EXCEPT ![m][c] = TRUE]
    /\ last' = NoCall
    /\ UNCHANGED <<tables, now, grant>>
    /\ done' = NoLifecycleCall
    /\ UNCHANGED lifecycle_vars

\* Time passes on the backends.
Tick ==
    /\ now < MaxTime
    /\ now' = now + 1
    /\ last' = NoCall
    /\ UNCHANGED <<tables, closed, grant>>
    /\ done' = NoLifecycleCall
    /\ UNCHANGED lifecycle_vars

Next ==
    \/ \E m \in Managers, n \in LockNames, ms \in 0..MaxTtl : lock(m, n, ms)
    \/ \E m \in Managers, n \in LockNames : unlock(m, n)
    \/ \E m \in Managers, c \in Clients : Close(m, c)
    \/ Tick

Spec == Init /\ [][Next]_vars

TypeOK ==
    /\ tables \in [Clients -> SUBSET Row]
    /\ closed \in [Managers -> [Clients -> BOOLEAN]]
    /\ now \in 0..MaxTime
    /\ last.op \in {"none", "lock", "unlock"}

(* ------------------------------ lifecycle ------------------------------ *)

\* The `?` on batch_execute that skips a client answering with a transient
\* error, as the loops of lock and unlock do.
propagate_skips_transient(err) ==
    IF err = "none" \/ IsTransient(err) THEN "next" ELSE "PostgresError"

\* The `?` on client.batch_execute(..) in new and clean_up: any error returns
\* from the function as PostgresError (From<postgres::Error>); Ok goes on to
\* the next client.
propagate(err) == IF err = "none" THEN "next" ELSE "PostgresError"

\* The create batch with `drop table` before `create table`.
PG_TABLE_QUERY_recreates(s, T) ==
    [exists   |-> s.exists \cup {T},
     rows     |-> [s.rows EXCEPT ![T] = {}],
     triggers |-> s.triggers \cup {T},
     reaps    |-> T]

\* PG_TABLE_QUERY with TABLE_NAME = T run on a backend with schema objects s:
\* create table if not exists T (an existing table keeps its rows); create or
\* replace function _lock_reap(), whose body deletes from T; create or
\* replace trigger _lock_reap_trigger on T.  The function name does not
\* depend on T: there is one function per backend.
PG_TABLE_QUERY(s, T) ==
    [exists   |-> s.exists \cup {T},
     rows     |-> s.rows,
     triggers |-> s.triggers \cup {T},
     reaps    |-> T]

\* The clean-up batch without `drop table`.
PG_CLEAN_UP_QUERY_keeps_table(s, T) ==
    IF (s.triggers \ {T}) # {} /\ s.reaps # "none"
    THEN [schema |-> s, err |-> "DEPENDENT_OBJECTS_STILL_EXIST"]
    ELSE [schema |-> [exists   |-> s.exists,
                      rows     |-> s.rows,
                      triggers |-> s.triggers \ {T},
                      reaps    |-> "none"],
          err |-> "none"]

\* PG_CLEAN_UP_QUERY with TABLE_NAME = T: drop trigger if exists
\* _lock_reap_trigger on T; drop function if exists _lock_reap(); drop table
\* if exists T.  The three statements of the batch are one transaction.  The
\* drop of the function fails while a trigger on another table executes it,
\* and then nothing is dropped.
PG_CLEAN_UP_QUERY(s, T) ==
    IF (s.triggers \ {T}) # {} /\ s.reaps # "none"
    THEN [schema |-> s, err |-> "DEPENDENT_OBJECTS_STILL_EXIST"]
    ELSE [schema |-> [exists   |-> s.exists \ {T},
                      rows     |-> [s.rows EXCEPT ![T] = {}],
                      triggers |-> s.triggers \ {T},
                      reaps    |-> "none"],
          err |-> "none"]

\* The insert of PG_LOCK_QUERY on the rows of its table, after the triggers:
\* insert, or on a conflict on lock_name update the row of the same client.
insert_on_conflict(rows, id, name, ms, t) ==
    LET excluded == [client_id |-> id, lock_name |-> name, expires_at |-> t + ms]
        conflict == {r \in rows : r.lock_name = excluded.lock_name}
        updated  == {r \in conflict : /\ r.client_id = excluded.client_id
                                      /\ r.lock_name = excluded.lock_name}
    IN  IF conflict = {}
        THEN [rows |-> rows \cup {excluded}, row_count |-> 1]
        ELSE [rows |-> (rows \ updated) \cup
                       {[r EXCEPT !.expires_at = t + ms] : r \in updated},
              row_count |-> Cardinality(updated)]

\* PG_LOCK_QUERY with TABLE_NAME = T on a backend with schema objects s: an
\* error if T does not exist; else the trigger on T, if there is one, runs
\* _lock_reap(), which deletes the expired rows of the table its body names;
\* then the insert on T.
lock_statement(s, T, id, name, ms, t) ==
    IF T \notin s.exists \/ (T \in s.triggers /\ s.reaps \notin s.exists)
    THEN [schema |-> s, err |-> "UNDEFINED_TABLE", row_count |-> 0]
    ELSE LET reaped == IF T \in s.triggers
                       THEN [s.rows EXCEPT ![s.reaps] = lock_reap(@, t)]
                       ELSE s.rows
             ins    == insert_on_conflict(reaped[T], id, name, ms, t)
         IN  [schema |-> [s EXCEPT !.rows = [reaped EXCEPT ![T] = ins.rows]],
              err |-> "none", row_count |-> ins.row_count]

\* The answers the clients can give manager m in one call of new or clean_up,
\* which visit every client: every closed connection answers with the
\* transient error e.t, the open connection to c with e.f[c].
BatchAnswers(m) ==
    [t : IF \E c \in Clients : closed[m][c]
         THEN {"closed", "ADMIN_SHUTDOWN", "CRASH_SHUTDOWN"} ELSE {"closed"},
     f : [Clients -> {"none", "other"}]]

\* What client.batch_execute gives manager m on client c under the answers e.
batch_execute(m, c, e) == IF closed[m][c] THEN e.t ELSE e.f[c]

\* The loop of new from the i-th client on, over the schemas s.
RECURSIVE new_loop(_, _, _, _, _, _)
new_loop(i, m, e, T, s, tried) ==
    IF i > Len(clients)
    THEN [schema |-> s, tried |-> tried, err |-> "none", ret |-> "Ok"]
    ELSE LET c   == clients[i]
             err == batch_execute(m, c, e)
         IN  IF propagate(err) = "next"
             THEN new_loop(i + 1, m, e, T,
                           IF err = "none"
                           THEN [s EXCEPT ![c] = PG_TABLE_QUERY(s[c], T)]
                           ELSE s,
                           Append(tried, c))
             ELSE [schema |-> s, tried |-> Append(tried, c), err |-> err,
                   ret |-> "PostgresError"]

\* The loop of clean_up from the i-th client on, over the schemas s.
RECURSIVE clean_up_loop(_, _, _, _, _, _)
clean_up_loop(i, m, e, T, s, tried) ==
    IF i > Len(clients)
    THEN [schema |-> s, tried |-> tried, err |-> "none", ret |-> "Ok"]
    ELSE LET c   == clients[i]
             q   == PG_CLEAN_UP_QUERY(s[c], T)
             err == IF batch_execute(m, c, e) # "none"
                    THEN batch_execute(m, c, e) ELSE q.err
         IN  IF propagate(err) = "next"
             THEN clean_up_loop(i + 1, m, e, T,
                                IF err = "none"
                                THEN [s EXCEPT ![c] = q.schema] ELSE s,
                                Append(tried, c))
             ELSE [schema |-> s, tried |-> Append(tried, c), err |-> err,
                   ret |-> "PostgresError"]

\* The clients on which table T exists.
ExistsOn(T) == {c \in Clients : T \in schema[c].exists}

\* CockLock::new for manager m with table_name T.  The instance is returned
\* only on Ok.
new(m, T) ==
    /\ built[m] = "none"
    /\ \E e \in BatchAnswers(m) :
        LET run == new_loop(1, m, e, T, schema, <<>>)
        IN  /\ schema' = run.schema
            /\ built' = IF run.ret = "Ok" THEN [built EXCEPT ![m] = T] ELSE built
            /\ done' = [m |-> m, op |-> "new", table_name |-> T,
                        existed |-> ExistsOn(T),
                        tried |-> run.tried, err |-> run.err, ret |-> run.ret]
    /\ UNCHANGED <<tables, closed, now, grant, last>>

\* CockLock::clean_up on the instance of manager m.
clean_up(m) ==
    /\ built[m] # "none"
    /\ \E e \in BatchAnswers(m) :
        LET run == clean_up_loop(1, m, e, built[m], schema, <<>>)
        IN  /\ schema' = run.schema
            /\ done' = [m |-> m, op |-> "clean_up", table_name |-> built[m],
                        existed |-> ExistsOn(built[m]),
                        tried |-> run.tried, err |-> run.err, ret |-> run.ret]
    /\ UNCHANGED <<tables, closed, now, grant, last, built>>

\* CockLock::lock(n, ms) on the instance of manager m, over the schema
\* objects of the first client that does not fail transiently.
lock_provisioned(m, n, ms) ==
    /\ built[m] # "none"
    /\ \E e \in Answers(m) :
        LET run == Loop(1, m, e, <<>>)
            c   == run.tried[Len(run.tried)]
            q   == lock_statement(schema[c], built[m], m, n, ms, now)
            err == IF execute(m, c, e) # "none" THEN execute(m, c, e) ELSE q.err
            row_count == IF err = "none" THEN q.row_count ELSE 0
            ret == IF run.answered THEN lock_match(err, row_count)
                                   ELSE "NoClientsAvailable"
        IN  /\ schema' = IF run.answered /\ err = "none"
                         THEN [schema EXCEPT ![c] = q.schema] ELSE schema
            /\ done' = [m |-> m, op |-> "lock", table_name |-> built[m],
                        existed |-> ExistsOn(built[m]),
                        tried |-> run.tried,
                        err |-> IF run.answered THEN err ELSE "none",
                        ret |-> ret]
    /\ UNCHANGED <<tables, closed, now, grant, last, built>>

\* A connection closes, while fewer than MaxClosed have.
Disconnect(m, c) ==
    /\ Cardinality({mc \in Managers \X Clients : closed[mc[1]][mc[2]]}) < MaxClosed
    /\ Close(m, c)

LifecycleNext ==
    \/ \E m \in Managers, T \in TableNames : new(m, T)
    \/ \E m \in Managers : clean_up(m)
    \/ \E m \in Managers, n \in LockNames, ms \in 0..MaxTtl :
          lock_provisioned(m, n, ms)
    \/ \E m \in Managers, c \in Clients : Disconnect(m, c)
    \/ Tick

Lifecycle == Init /\ [][LifecycleNext]_vars

SchemaOK ==
    /\ \A c \in Clients :
          /\ schema[c].exists \subseteq TableNames
          /\ schema[c].triggers \subseteq schema[c].exists
          /\ schema[c].reaps \in TableNames \cup {"none"}
          /\ \A T \in TableNames :
                /\ schema[c].rows[T] \subseteq Row
                /\ T \notin schema[c].exists => schema[c].rows[T] = {}
    /\ built \in [Managers -> TableNames \cup {"none"}]
    /\ done.op \in {"none", "new", "clean_up", "lock"}

(* ------------------------------ properties ----------------------------- *)

\* A row is expired at time t: the condition under which the reaper deletes it.
Expired(r, t) == r.expires_at # NULL /\ t > r.expires_at

\* A row is live at time t.
Live(r, t) == ~Expired(r, t)

\* The rows of a table for lock name n.
RowsOf(rows, n) == {r \in rows : r.lock_name = n}

\* The latest step was a call of `op` in which a client executed the
\* statement: the first client whose connection is not closed.
Executed(op) == last.op = op /\ last.c # "" /\ last.err = "none"

\* The latest step was a call of `op` for a lock name whose latest grant,
\* before the call, was one to manager a.
CallAfterGrant(op, a) ==
    /\ last.op = op
    /\ last.grant # NoGrant
    /\ last.grant.m = a
    /\ last.grant.lock_name = last.lock_name

\* The timeout of the grant before the latest step has not elapsed / has
\* elapsed at the time of that step.
GrantRunning == now < last.grant.at + last.grant.timeout_ms
GrantElapsed == now > last.grant.at + last.grant.timeout_ms

\* C1. Mutual exclusion: when A's lock(n, ttl) has returned success, ttl has
\* not elapsed and A has not released n, no lock(n, _) of another manager B
\* returns success, whatever connections of A and B are closed.
C1_MutualExclusion ==
    \A a \in Managers :
        (/\ CallAfterGrant("lock", a)
         /\ last.m # a
         /\ GrantRunning)
        => last.ret # "Ok"

\* C2. Per-backend uniqueness: every backend holds at most one row per lock
\* name at every instant, and a lock statement succeeds only when the table
\* holds no live row of another owner for the name, so of concurrent lock
\* calls for a free name on one backend at most one succeeds.
C2_Uniqueness ==
    /\ \A c \in Clients, n \in LockNames : Cardinality(RowsOf(tables[c], n)) <= 1
    /\ (Executed("lock") /\ last.ret = "Ok")
       => \A r \in RowsOf(last.before, last.lock_name) :
              r.client_id # last.m => Expired(r, now)

\* Two managers asked one backend for the same name at the same instant: the
\* one was granted it, the other has just been refused.
C2_Witness ==
    /\ Executed("lock")
    /\ last.ret = "NotAvailable"
    /\ last.grant # NoGrant
    /\ last.grant.m # last.m
    /\ last.grant.lock_name = last.lock_name
    /\ last.grant.c = last.c
    /\ last.grant.at = now

\* C3. Indefinite hold: after A's lock(n, 0) has returned success, and until
\* A's unlock(n) succeeds, the row stays in the table of the backend that
\* granted it, however much time passes, and every lock(n, _) of another
\* manager executed by that backend returns NotAvailable.
C3_IndefiniteHold ==
    /\ (grant # NoGrant /\ grant.timeout_ms = 0)
       => \E r \in RowsOf(tables[grant.c], grant.lock_name) :
              r.client_id = grant.m
    /\ \A a \in Managers :
          (/\ CallAfterGrant("lock", a)
           /\ last.m # a
           /\ last.grant.timeout_ms = 0
           /\ Executed("lock")
           /\ last.c = last.grant.c)
          => last.ret = "NotAvailable"

\* C4. Expiry reclamation: a lock(n, ttl2) of B executed by a backend whose
\* table holds an expired row of another owner for n returns success, and
\* afterwards the backend's only row for n is B's, expiring at now() + ttl2:
\* the reaper removed the expired row inside the same statement.
C4_ExpiryReclamation ==
    (/\ Executed("lock")
     /\ \E r \in RowsOf(last.before, last.lock_name) :
           r.client_id # last.m /\ Expired(r, now))
    => /\ last.ret = "Ok"
       /\ RowsOf(tables[last.c], last.lock_name) =
             {[client_id |-> last.m, lock_name |-> last.lock_name,
               expires_at |-> now + last.timeout_ms]}

\* A was granted n with a timeout > 0, more than the timeout elapsed, and B's
\* lock of n on the same backend, which still held A's row, has succeeded.
C4_Witness ==
    /\ Executed("lock")
    /\ last.ret = "Ok"
    /\ \E a \in Managers :
          /\ a # last.m
          /\ CallAfterGrant("lock", a)
          /\ last.grant.timeout_ms > 0
          /\ GrantElapsed
          /\ last.grant.c = last.c
          /\ [client_id |-> a, lock_name |-> last.lock_name,
              expires_at |-> last.grant.at + last.grant.timeout_ms] \in last.before
    /\ \A r \in RowsOf(tables[last.c], last.lock_name) : r.client_id = last.m

\* C5. No in-place override: a statement never changes the owner of a row
\* that was live, and a statement of another manager leaves a live row as it
\* was, owner and expires_at; so a lock of B that returns NotAvailable leaves
\* A's row unchanged.
C5_NoOverride ==
    (Executed("lock") \/ Executed("unlock"))
    => \A r \in last.before :
          Live(r, now)
          => /\ \A r2 \in RowsOf(tables[last.c], r.lock_name) :
                   r2.client_id = r.client_id
             /\ (r.client_id # last.m => r \in tables[last.c])

\* B's lock has just returned NotAvailable on a backend holding A's live row.
C5_Witness ==
    /\ Executed("lock")
    /\ last.ret = "NotAvailable"
    /\ \E r \in RowsOf(last.before, last.lock_name) :
          /\ r.client_id # last.m
          /\ Live(r, now)
          /\ r \in tables[last.c]

\* C6. Renewal: a lock(n, ttl) of A executed by a backend holding A's live
\* row for n returns success and leaves exactly one row for n, owned by A and
\* expiring at now() + ttl, whatever the row's expires_at was.
C6_Renewal ==
    (/\ Executed("lock")
     /\ \E r \in RowsOf(last.before, last.lock_name) :
           r.client_id = last.m /\ Live(r, now))
    => /\ last.ret = "Ok"
       /\ RowsOf(tables[last.c], last.lock_name) =
             {[client_id |-> last.m, lock_name |-> last.lock_name,
               expires_at |-> now + last.timeout_ms]}

\* A renewal with a shorter timeout has moved the expiry earlier.
C6_Witness ==
    /\ Executed("lock")
    /\ last.ret = "Ok"
    /\ \E r \in RowsOf(last.before, last.lock_name) :
          /\ r.client_id = last.m
          /\ Live(r, now)
          /\ \E r2 \in RowsOf(tables[last.c], last.lock_name) :
                r2.client_id = last.m /\ r2.expires_at < r.expires_at

\* C7. Release by the holder: when A's lock(n, ttl) has returned success and
\* ttl has not elapsed, an unlock(n) of A that a backend executes returns
\* success, whatever connections are closed.
C7_ReleaseByHolder ==
    (/\ CallAfterGrant("unlock", last.m)
     /\ Executed("unlock")
     /\ GrantRunning)
    => last.ret = "Ok"

\* C8. Cross-owner release rejection: an unlock(n) of B executed by a backend
\* holding A's live row for n returns NotAvailable and leaves the table as it
\* was, so that on it a lock(n, _) of B is still refused and an unlock(n) of A
\* still succeeds.
C8_CrossOwnerRelease ==
    (Executed("unlock"))
    => \A r \in RowsOf(last.before, last.lock_name) :
          (r.client_id # last.m /\ Live(r, now))
          => /\ last.ret = "NotAvailable"
             /\ tables[last.c] = last.before
             /\ \A ms \in 0..MaxTtl :
                   lock_match("none",
                       PG_LOCK_QUERY(tables[last.c], last.m, last.lock_name,
                                     ms, now).row_count) = "NotAvailable"
             /\ unlock_match("none",
                    PG_UNLOCK_QUERY(tables[last.c], r.client_id,
                                    last.lock_name).row_count) = "Ok"

\* B's unlock has just been refused on a backend holding A's live row.
C8_Witness ==
    /\ Executed("unlock")
    /\ last.ret = "NotAvailable"
    /\ \E r \in RowsOf(tables[last.c], last.lock_name) :
          r.client_id # last.m /\ Live(r, now)

\* C9. Release of a lock not held: an unlock(n) of A executed by a backend
\* (the first one whose connection is not closed) that holds no row of A for
\* n returns NotAvailable, and deletes nothing.
C9_ReleaseNotHeld ==
    (/\ Executed("unlock")
     /\ \A r \in RowsOf(last.before, last.lock_name) : r.client_id # last.m)
    => /\ last.ret = "NotAvailable"
       /\ tables[last.c] = last.before

\* A's unlock skipped the first client, whose connection is closed, and was
\* refused by the second, which holds no row of A.
C9_Witness ==
    /\ Executed("unlock")
    /\ last.ret = "NotAvailable"
    /\ last.c = clients[2]
    /\ closed[last.m][clients[1]]
    /\ \A r \in last.before : r.client_id # last.m

\* C10. Release after expiry: when A's lock(n, ttl) with ttl > 0 has returned
\* success and more than ttl has elapsed without a renewal, an unlock(n) of A
\* that a backend executes returns NotAvailable.
C10_ReleaseAfterExpiry ==
    (/\ CallAfterGrant("unlock", last.m)
     /\ Executed("unlock")
     /\ last.grant.timeout_ms > 0
     /\ GrantElapsed)
    => last.ret = "NotAvailable"

(* ------------------------- failover and errors -------------------------- *)

\* The position in `clients` of the first client whose connection manager m
\* has open, 0 if all are closed.
FirstOpen(m) ==
    IF \E i \in 1..Len(clients) : ~closed[m][clients[i]]
    THEN CHOOSE i \in 1..Len(clients) :
            /\ ~closed[m][clients[i]]
            /\ \A j \in 1..(i - 1) : closed[m][clients[j]]
    ELSE 0

\* C11. Total outage: a lock or an unlock of a manager whose connections are
\* all closed, so that every client answers with a transient error (closed,
\* ADMIN_SHUTDOWN or CRASH_SHUTDOWN), tries every client in order, gets an
\* answer that ends the loop from none, and returns NoClientsAvailable.
C11_TotalOutage ==
    (/\ last.op \in {"lock", "unlock"}
     /\ \A c \in Clients : closed[last.m][c])
    => /\ last.ret = "NoClientsAvailable"
       /\ last.tried = clients
       /\ last.c = ""

\* Both managers have met a total outage, the latest call being an unlock of
\* a manager that was granted the lock before.
C11_Witness ==
    /\ last.op = "unlock"
    /\ last.ret = "NoClientsAvailable"
    /\ last.tried = clients
    /\ last.grant.m = last.m
    /\ \A m \in Managers, c \in Clients : closed[m][c]

\* C12. Failover success: when the first k clients of the calling manager are
\* closed, client k+1 is open, does not answer with a fatal error and holds
\* no live row of another owner for n, lock(n, ms) returns Ok(()), has tried
\* exactly the first k+1 clients, has written the caller's row on client k+1,
\* and has left the table of every other client as it was.
C12_FailoverSuccess ==
    [][(/\ last'.op = "lock"
        /\ FirstOpen(last'.m) # 0
        /\ last'.err # "other"
        /\ \A r \in RowsOf(tables[clients[FirstOpen(last'.m)]], last'.lock_name) :
               r.client_id # last'.m => Expired(r, now))
       => LET k1 == FirstOpen(last'.m)
              c  == clients[k1]
          IN  /\ last'.ret = "Ok"
              /\ last'.tried = SubSeq(clients, 1, k1)
              /\ last'.c = c
              /\ [client_id |-> last'.m, lock_name |-> last'.lock_name,
                  expires_at |-> now + last'.timeout_ms] \in tables'[c]
              /\ \A d \in Clients \ {c} : tables'[d] = tables[d]]_vars

\* A lock has skipped the closed first client and been granted by the second.
C12_Witness ==
    /\ last.op = "lock"
    /\ last.ret = "Ok"
    /\ closed[last.m][clients[1]]
    /\ last.tried = SubSeq(clients, 1, 2)
    /\ \E r \in tables[clients[2]] : r.client_id = last.m

\* C13. Conflict short-circuit: when the first open client of the calling
\* manager holds a live row of another owner for n and does not answer with a
\* fatal error, lock(n, ms) returns NotAvailable, has tried no client after
\* it, and has changed no table.
C13_ConflictShortCircuit ==
    [][(/\ last'.op = "lock"
        /\ FirstOpen(last'.m) # 0
        /\ last'.err # "other"
        /\ \E r \in RowsOf(tables[clients[FirstOpen(last'.m)]], last'.lock_name) :
               r.client_id # last'.m /\ Live(r, now))
       => /\ last'.ret = "NotAvailable"
          /\ last'.row_count = 0
          /\ last'.tried = SubSeq(clients, 1, FirstOpen(last'.m))
          /\ tables' = tables]_vars

\* A lock has been refused by the first client while the caller's connection
\* to the second is open and the second holds no row.
C13_Witness ==
    /\ last.op = "lock"
    /\ last.ret = "NotAvailable"
    /\ last.c = clients[1]
    /\ last.tried = <<clients[1]>>
    /\ ~closed[last.m][clients[2]]
    /\ tables[clients[2]] = {}

\* C14. Fatal backend errors: when the first open client of the calling
\* manager answers a lock or an unlock with an error that is not transient,
\* the call returns PostgresError with that error, has tried no client after
\* it, and has changed no table.
C14_FatalError ==
    [][(/\ last'.op \in {"lock", "unlock"}
        /\ last'.err # "none")
       => /\ ~IsTransient(last'.err)
          /\ last'.ret = "PostgresError"
          /\ FirstOpen(last'.m) # 0
          /\ last'.c = clients[FirstOpen(last'.m)]
          /\ last'.tried = SubSeq(clients, 1, FirstOpen(last'.m))
          /\ tables' = tables]_vars

\* An unlock has ended with PostgresError on the first client although the
\* second is open, and a lock has done so before it: the first client still
\* holds no row.
C14_Witness ==
    /\ last.op = "unlock"
    /\ last.err = "other"
    /\ last.ret = "PostgresError"
    /\ last.c = clients[1]
    /\ ~closed[last.m][clients[2]]
    /\ grant # NoGrant

\* C20. No record left behind by release: when an unlock(n) of A has returned
\* Ok(()), no client's table holds a row of A for n.
C20_NoRecordLeftBehind ==
    (last.op = "unlock" /\ last.ret = "Ok")
    => \A c \in Clients :
          \A r \in RowsOf(tables[c], last.lock_name) : r.client_id # last.m

(* --------------------- provisioning and clean-up ------------------------ *)

\* What the schema objects s of a backend say about table T: whether it
\* exists, its rows, whether it has the trigger, whether the function reaps it.
TablePart(s, T) ==
    [exists |-> T \in s.exists, rows |-> s.rows[T],
     trigger |-> T \in s.triggers, reaped |-> s.reaps = T]

\* C15. clean_up under partial outage: a clean_up that no client answers with
\* a definitive error returns Ok(()), having skipped the clients whose
\* connections are closed and dropped the table on every other client.
C15_CleanUpFailover ==
    [][(/\ done'.op = "clean_up"
        /\ done'.err \notin {"other", "DEPENDENT_OBJECTS_STILL_EXIST"})
       => /\ done'.ret = "Ok"
          /\ \A c \in Clients :
                ~closed[done'.m][c] => done'.table_name \notin schema'[c].exists]_vars

\* C16. clean_up then new: a clean_up that returns Ok(()) leaves its table,
\* the trigger on it and the function on no client; a new that returns Ok(())
\* for a table that existed on no client leaves on every client what new
\* leaves on a backend on which nothing was ever created: the table with no
\* row, its trigger, and the function reaping it, so that a lock statement of
\* any owner inserts its row.
C16_CleanUpThenNew ==
    [][/\ (done'.op = "clean_up" /\ done'.ret = "Ok")
          => \A c \in Clients :
                /\ TablePart(schema'[c], done'.table_name) =
                      TablePart(Uninstalled, done'.table_name)
                /\ schema'[c].reaps = "none"
       /\ (/\ done'.op = "new"
           /\ done'.ret = "Ok"
           /\ \A c \in Clients : done'.table_name \notin schema[c].exists)
          => \A c \in Clients :
                /\ TablePart(schema'[c], done'.table_name) =
                      TablePart(PG_TABLE_QUERY(Uninstalled, done'.table_name),
                                done'.table_name)
                /\ \A id \in Managers, n \in LockNames, ms \in 0..MaxTtl :
                      LET q == lock_statement(schema'[c], done'.table_name,
                                              id, n, ms, now)
                      IN  /\ q.err = "none"
                          /\ q.row_count = 1
                          /\ q.schema.rows[done'.table_name] =
                                {[client_id |-> id, lock_name |-> n,
                                  expires_at |-> now + ms]}]_vars

\* A manager has been built on a table name another manager was built on
\* before, and the table existed on no client: it had been cleaned up.
C16_Witness ==
    /\ done.op = "new"
    /\ done.ret = "Ok"
    /\ done.existed = {}
    /\ \E m \in Managers : m # done.m /\ built[m] = done.table_name
    /\ \A c \in Clients : schema[c].rows[done.table_name] = {}

\* C17. Provisioning is idempotent: a new on clients that have the table
\* already leaves the rows of every table as they were and drops no table,
\* and it returns Ok(()) when all connections of the caller are open and no
\* client answers with an error of its own.
C17_ProvisionIdempotent ==
    [][(done'.op = "new")
       => /\ \A c \in Clients :
                /\ schema'[c].rows = schema[c].rows
                /\ schema[c].exists \subseteq schema'[c].exists
          /\ ((\A c \in Clients : ~closed[done'.m][c]) /\ done'.err # "other")
             => done'.ret = "Ok"]_vars

\* A second manager has been built on a table in which a manager built
\* earlier holds a live row.
C17_Witness ==
    /\ done.op = "new"
    /\ done.ret = "Ok"
    /\ done.existed = Clients
    /\ \E c \in Clients : \E r \in schema[c].rows[done.table_name] :
          /\ r.client_id # done.m
          /\ built[r.client_id] = done.table_name
          /\ Live(r, now)

\* C18. No partial provisioning: new returns an instance exactly when it
\* returns Ok(()), which it does only after every client in order has
\* executed the create batch, so that the table exists on every client; with
\* a closed connection it returns PostgresError and no instance; an instance
\* comes from new only; and a table stops existing through clean_up only.
C18_NoPartialProvisioning ==
    [][/\ (done'.op = "new")
          => /\ (done'.ret = "Ok") <=> (built'[done'.m] = done'.table_name)
             /\ (done'.ret = "Ok")
                => /\ done'.tried = clients
                   /\ \A c \in Clients :
                         /\ ~closed[done'.m][c]
                         /\ done'.table_name \in schema'[c].exists
             /\ (\E c \in Clients : closed[done'.m][c])
                => (done'.ret = "PostgresError" /\ built'[done'.m] = "none")
       /\ \A m \in Managers :
             built'[m] # built[m]
             => (done'.op = "new" /\ done'.m = m /\ done'.ret = "Ok")
       /\ \A c \in Clients, T \in TableNames :
             (T \in schema[c].exists /\ T \notin schema'[c].exists)
             => (done'.op = "clean_up" /\ done'.table_name = T)]_vars

\* A new has created the table on the first client, failed on the last with
\* a closed connection, and returned no instance.
C18_Witness ==
    /\ done.op = "new"
    /\ done.ret = "PostgresError"
    /\ done.err \in {"closed", "ADMIN_SHUTDOWN", "CRASH_SHUTDOWN"}
    /\ done.existed = {}
    /\ done.tried = clients
    /\ done.table_name \in schema[clients[1]].exists
    /\ built[done.m] = "none"

\* C19. Reaper isolation between table names: once two managers are built
\* with different table names, on every client a lock statement of any owner
\* on a table that has the trigger leaves no expired row in that table, and
\* no clean_up fails because the trigger of another table uses the function.
C19_ReaperIsolation ==
    (\E m1, m2 \in Managers :
        built[m1] # "none" /\ built[m2] # "none" /\ built[m1] # built[m2])
    => /\ \A c \in Clients, T \in TableNames :
             T \in schema[c].triggers
             => \A id \in Managers, n \in LockNames :
                   \A r \in lock_statement(schema[c], T, id, n, 0,
                                           now).schema.rows[T] :
                      ~Expired(r, now)
       /\ done.err # "DEPENDENT_OBJECTS_STILL_EXIST"

\* C21. Bounded sequential attempts: every lock and every unlock returns one
\* of the four results after trying a prefix of the client list, in the list's
\* order, with no client skipped and none tried twice, so at most Len(clients)
\* attempts; the prefix ends at the first client whose answer is not a
\* transient error, or is the whole list when every client answers with one;
\* and the call changes the table of no client but the one that answered.
C21_BoundedAttempts ==
    [][last'.op \in {"lock", "unlock"}
       => LET m == last'.m
              n == Len(last'.tried)
              k == IF FirstOpen(m) = 0 THEN Len(clients) ELSE FirstOpen(m)
          IN  /\ last'.ret \in {"Ok", "NotAvailable", "PostgresError",
                                "NoClientsAvailable"}
              /\ n <= Len(clients)
              /\ last'.tried = SubSeq(clients, 1, n)
              /\ n = k
              /\ \A i \in 1..(n - 1) : closed[m][last'.tried[i]]
              /\ (last'.c = "") = (FirstOpen(m) = 0)
              /\ last'.c # "" => /\ last'.c = last'.tried[n]
                                 /\ ~closed[m][last'.c]
              /\ \A d \in Clients :
                     tables'[d] # tables[d] => d = last'.c]_vars

\* An unlock has tried both clients, each once and in order: the first
\* answered with a transient error and the second deleted the caller's row.
C21_Witness ==
    /\ last.op = "unlock"
    /\ last.tried = clients
    /\ closed[last.m][clients[1]]
    /\ last.c = clients[2]
    /\ last.ret = "Ok"
    /\ last.row_count = 1

====
